---- MODULE Spec2Model ----
(***************************************************************************)
(* Order lifecycle tracker (src/src/exchange/orders.py) and parameter      *)
(* validation layer (src/src/utils/validation.py) of hyperliquid_bot.      *)
(*                                                                         *)
(* Python objects are modelled as a heap: `orders` is the sequence of all  *)
(* Order objects ever constructed, an object reference is an index into    *)
(* it.  A dict of Orders is a function from its keys to references.        *)
(* Optional[T] is a sequence: None is <<>>, a value v is <<v>>.            *)
(* A str that is parsed (Decimal(str(x)), int(x), re.match) is a sequence  *)
(* of one-character strings; a str that is only stored or compared is a    *)
(* TLA+ string.  A Decimal is [c |-> coefficient, e |-> digits after the   *)
(* point].                                                                 *)
(***************************************************************************)
EXTENDS Integers, Sequences, FiniteSets, TLC

VARIABLES
    orders,         \* heap of Order objects, in construction order
    active_orders,  \* OrderManager.active_orders: client_order_id -> reference
    snapshot,       \* the dict object built by active_orders.copy()
    held,           \* the dict object the caller's reference from get_active_orders names
    call,           \* the call just made: operation, arguments, outcome
    steps,          \* number of calls made so far
    arg,            \* input of the pure function just applied
    result          \* its outcome

vars == <<orders, active_orders, snapshot, held, call, steps, arg, result>>

\* ------------------------------------------------------------------ bounds

MaxSteps == 3

MaxLen == 3

ShortLen == 1

\* ------------------------------------------------------------ Python values

None == <<>>

Some(v) == <<v>>

Range(f) == {f[x] : x \in DOMAIN f}

\* dict.pop(k, None) / del d[k]
DictRemove(d, k) == [x \in DOMAIN d \ {k} |-> d[x]]

\* d[k] = v
DictPut(d, k, v) == [x \in DOMAIN d \cup {k} |-> IF x = k THEN v ELSE d[x]]

EmptyDict == [x \in {} |-> 0]

\* bool(x) of an Optional[str]: None and "" are falsy
TruthyStr(x) == x # None /\ x[1] # ""

\* bool(x) of an Optional[Decimal]: None and zero are falsy
TruthyDecimal(x) == x # None /\ x[1].c # 0

\* ------------------------------------------------------------------ Decimal

DigitChars == {"0", "1", "2", "3", "4", "5", "6", "7", "8", "9"}

DigitVal(ch) ==
    CASE ch = "0" -> 0 [] ch = "1" -> 1 [] ch = "2" -> 2 [] ch = "3" -> 3
      [] ch = "4" -> 4 [] ch = "5" -> 5 [] ch = "6" -> 6 [] ch = "7" -> 7
      [] ch = "8" -> 8 [] ch = "9" -> 9

RECURSIVE DigitsToInt(_)
DigitsToInt(s) ==
    IF s = <<>> THEN 0
    ELSE 10 * DigitsToInt(SubSeq(s, 1, Len(s) - 1)) + DigitVal(s[Len(s)])

RECURSIVE Pow10(_)
Pow10(n) == IF n = 0 THEN 1 ELSE 10 * Pow10(n - 1)

AllDigits(s) == \A i \in 1..Len(s) : s[i] \in DigitChars

DecimalZero == [c |-> 0, e |-> 0]

\* decimal.Decimal(text) on the numeric-string syntax [sign] digits [. digits]
\* with at least one digit; anything else signals decimal.InvalidOperation
\* (ConversionSyntax), a subclass of ArithmeticError.
DecimalFromStr(s) ==
    LET signed == Len(s) > 0 /\ s[1] \in {"-", "+"}
        body   == IF signed THEN Tail(s) ELSE s
        dots   == {i \in 1..Len(body) : body[i] = "."}
        ip     == IF dots = {} THEN body
                  ELSE SubSeq(body, 1, (CHOOSE i \in dots : TRUE) - 1)
        fp     == IF dots = {} THEN <<>>
                  ELSE SubSeq(body, (CHOOSE i \in dots : TRUE) + 1, Len(body))
        wellFormed == /\ Cardinality(dots) <= 1
                      /\ AllDigits(ip) /\ AllDigits(fp)
                      /\ Len(ip) + Len(fp) >= 1
        mag    == DigitsToInt(ip \o fp)
    IN  IF wellFormed
        THEN [raised |-> None,
              value  |-> [c |-> IF signed /\ s[1] = "-" THEN 0 - mag ELSE mag,
                          e |-> Len(fp)]]
        ELSE [raised |-> Some("InvalidOperation"), value |-> DecimalZero]

\* ---------------------------------------------------------------- orders.py

OrderType == {"MARKET", "LIMIT", "STOP_LOSS", "TAKE_PROFIT"}

OrderSide == {"BUY", "SELL"}

OrderStatus == {"PENDING", "OPEN", "FILLED", "CANCELLED", "REJECTED", "EXPIRED"}

OrderParams(symbol, side, order_type, quantity, price, stop_price, take_profit_price, client_order_id) ==
    [symbol |-> symbol, side |-> side, order_type |-> order_type,
     quantity |-> quantity, price |-> price, stop_price |-> stop_price,
     take_profit_price |-> take_profit_price, leverage |-> 1,
     time_in_force |-> "GTC", reduce_only |-> FALSE,
     client_order_id |-> client_order_id]

Order(params) ==
    [params |-> params, status |-> "PENDING", exchange_order_id |-> None,
     filled_quantity |-> DecimalZero, average_fill_price |-> None,
     last_update_timestamp |-> None, error_message |-> None]

\* ------------------------------------------------------------ Order.to_dict

RECURSIVE IntToDigits(_)
IntToDigits(n) ==
    IF n < 10 THEN <<CHOOSE ch \in DigitChars : DigitVal(ch) = n>>
    ELSE IntToDigits(n \div 10) \o <<CHOOSE ch \in DigitChars : DigitVal(ch) = n % 10>>

RECURSIVE ZeroPad(_, _)
ZeroPad(s, n) == IF Len(s) >= n THEN s ELSE ZeroPad(<<"0">> \o s, n)

\* str(Decimal): plain notation (no exponent is produced for the small
\* exponents of the inputs used here)
DecimalToStr(d) ==
    LET mag    == IF d.c < 0 THEN 0 - d.c ELSE d.c
        digits == ZeroPad(IntToDigits(mag), d.e + 1)
        n      == Len(digits)
        plain  == IF d.e = 0 THEN digits
                  ELSE SubSeq(digits, 1, n - d.e) \o <<".">> \o SubSeq(digits, n - d.e + 1, n)
    IN  IF d.c < 0 THEN <<"-">> \o plain ELSE plain

BaseKeys == {"symbol", "side", "orderType", "quantity", "leverage", "timeInForce", "reduceOnly"}

base_dict(p) ==
    [k \in BaseKeys |->
        CASE k = "symbol"      -> p.symbol
          [] k = "side"        -> p.side
          [] k = "orderType"   -> p.order_type
          [] k = "quantity"    -> DecimalToStr(p.quantity)
          [] k = "leverage"    -> p.leverage
          [] k = "timeInForce" -> p.time_in_force
          [] k = "reduceOnly"  -> p.reduce_only]

with_client_order_id(p, d) ==
    IF TruthyStr(p.client_order_id)
    THEN DictPut(d, "clientOrderId", p.client_order_id[1])
    ELSE d

\* the field a conditional order type requires, and the key it is sent under
RequiredField(p) ==
    CASE p.order_type = "LIMIT"       -> [key |-> "price", value |-> p.price]
      [] p.order_type = "STOP_LOSS"   -> [key |-> "stopPrice", value |-> p.stop_price]
      [] p.order_type = "TAKE_PROFIT" -> [key |-> "takeProfitPrice", value |-> p.take_profit_price]

\* `is None` in place of the truthiness test
field_missing_is_none(v) == v = None

\* `not self.params.price`
field_missing(v) == ~TruthyDecimal(v)

to_dict(o) ==
    LET p == o.params
        d == with_client_order_id(p, base_dict(p))
    IN  IF p.order_type = "MARKET"
        THEN [raised |-> None, body |-> d]
        ELSE LET f == RequiredField(p)
             IN  IF field_missing(f.value)
                 THEN [raised |-> Some("ValueError"), body |-> EmptyDict]
                 ELSE [raised |-> None, body |-> DictPut(d, f.key, DecimalToStr(f.value[1]))]

\* --------------------------------------------- Order.update_from_exchange

\* get("orderId", self.exchange_order_id) in place of get("orderId")
assign_exchange_order_id_keep(o, d) ==
    IF d.orderId = None THEN o ELSE [o EXCEPT !.exchange_order_id = d.orderId]

\* dict.get(key): the payload is a record of Optional fields, an absent key
\* is None
assign_exchange_order_id(o, d) == [o EXCEPT !.exchange_order_id = d.orderId]

\* exchange_data.get("status", "PENDING")
status_text(d) == IF d.status = None THEN "PENDING" ELSE d.status[1]

\* an unknown status silently read as PENDING
status_lookup_default(text) ==
    IF text \in OrderStatus
    THEN [raised |-> None, value |-> text]
    ELSE [raised |-> None, value |-> "PENDING"]

\* OrderStatus(text): lookup of an enum member by value
status_lookup(text) ==
    IF text \in OrderStatus
    THEN [raised |-> None, value |-> text]
    ELSE [raised |-> Some("ValueError"), value |-> text]

\* += in place of =
assign_filled_quantity_add(o, v) ==
    [o EXCEPT !.filled_quantity = [c |-> @.c * Pow10(v.e) + v.c * Pow10(@.e), e |-> @.e + v.e]]

assign_filled_quantity(o, v) == [o EXCEPT !.filled_quantity = v]

assign_average_fill_price(o, v) == [o EXCEPT !.average_fill_price = Some(v)]

assign_timestamp_and_error(o, d) ==
    [o EXCEPT !.last_update_timestamp = d.timestamp, !.error_message = d.error]

\* The assignments run in source order; an exception leaves the object as
\* the assignments before it made it.
update_from_exchange(o, d) ==
    LET o1 == assign_exchange_order_id(o, d)
        st == status_lookup(status_text(d))
        o2 == [o1 EXCEPT !.status = st.value]
        fq == IF d.fillQuantity = None THEN [raised |-> None, value |-> o.filled_quantity]
              ELSE DecimalFromStr(d.fillQuantity[1])
        o3 == IF d.fillQuantity = None THEN o2 ELSE assign_filled_quantity(o2, fq.value)
        ap == IF d.averagePrice = None THEN [raised |-> None, value |-> DecimalZero]
              ELSE DecimalFromStr(d.averagePrice[1])
        o4 == IF d.averagePrice = None THEN o3 ELSE assign_average_fill_price(o3, ap.value)
    IN  IF st.raised # None THEN [raised |-> st.raised, order |-> o1]
        ELSE IF fq.raised # None THEN [raised |-> fq.raised, order |-> o2]
        ELSE IF ap.raised # None THEN [raised |-> ap.raised, order |-> o3]
        ELSE [raised |-> None, order |-> assign_timestamp_and_error(o4, d)]

\* ------------------------------------------------------------ OrderManager

Terminal == {"FILLED", "CANCELLED", "REJECTED", "EXPIRED"}

\* client_order_id values a caller passes in OrderParams
ClientIds == {None, Some(""), Some("a"), Some("b")}

\* client_order_id values a caller passes to update_order and cancel_order
LookupIds == {"", "a", "b"}

TrackerParams(cid) ==
    OrderParams("BTC-USDT", "BUY", "MARKET", [c |-> 1, e |-> 0], None, None, None, cid)

\* Exchange response payloads.  The registry-level runs vary the status and
\* the fill quantity; the field-level runs vary every key of the payload.
\* Decimal texts: "2" and "5" parse, "a" does not.
StatusPayloads ==
    [orderId      : {None},
     status       : {None} \cup {Some(t) : t \in OrderStatus \cup {"BOGUS"}},
     fillQuantity : {None, Some(<<"2">>), Some(<<"a">>)},
     averagePrice : {None},
     timestamp    : {None},
     error        : {None}]

FieldPayloads ==
    [orderId      : {None, Some("x1")},
     status       : {None, Some("OPEN"), Some("FILLED"), Some("BOGUS")},
     fillQuantity : {None, Some(<<"2">>), Some(<<"a">>)},
     averagePrice : {None, Some(<<"5">>), Some(<<"a">>)},
     timestamp    : {None, Some(7)},
     error        : {None, Some("err")}]

NoPayload ==
    [orderId |-> None, status |-> None, fillQuantity |-> None,
     averagePrice |-> None, timestamp |-> None, error |-> None]

NoCall ==
    [op |-> "init", cid |-> None, data |-> NoPayload, raised |-> None,
     hit |-> FALSE, ret |-> None, repeat |-> FALSE]

\* The record of a call: the operation, its client_order_id and payload
\* arguments, the exception it raised, whether its registry lookup found an
\* order, the reference it returned, and whether it repeats the call before it.
Call(op, cid, data, raised, hit, ret) ==
    [op |-> op, cid |-> cid, data |-> data, raised |-> raised, hit |-> hit, ret |-> ret,
     repeat |-> (call.op = op /\ call.cid = cid /\ call.data = data)]

\* self.active_orders.get(client_order_id); an Order object is always truthy
get_order(client_order_id) ==
    IF client_order_id \in DOMAIN active_orders
    THEN Some(active_orders[client_order_id])
    ELSE None

\* setdefault in place of assignment: an existing entry is kept
register_if_absent(registry, key, ref) ==
    IF key \in DOMAIN registry THEN registry ELSE DictPut(registry, key, ref)

\* the registry after create_order registered reference `ref` under `key`
register(registry, key, ref) == DictPut(registry, key, ref)

create_order(params) ==
    /\ steps < MaxSteps
    /\ steps' = steps + 1
    /\ orders' = Append(orders, Order(params))
    /\ active_orders' =
          IF TruthyStr(params.client_order_id)
          THEN register(active_orders, params.client_order_id[1], Len(orders) + 1)
          ELSE active_orders
    /\ call' = Call("create_order", params.client_order_id, NoPayload, None,
                    FALSE, Some(Len(orders) + 1))
    /\ UNCHANGED <<snapshot, held, arg, result>>

\* a lookup among all orders ever created in place of the registry
lookup_latest(client_order_id) ==
    LET made == {i \in 1..Len(orders) : orders[i].params.client_order_id = Some(client_order_id)}
    IN  IF made = {} THEN None ELSE Some(CHOOSE i \in made : \A j \in made : j <= i)

\* the order update_order and cancel_order act on
lookup(client_order_id) == get_order(client_order_id)

update_order(client_order_id, exchange_data) ==
    /\ steps < MaxSteps
    /\ steps' = steps + 1
    /\ LET found == lookup(client_order_id)
       IN  IF found # None
           THEN LET r == update_from_exchange(orders[found[1]], exchange_data)
                IN  /\ orders' = [orders EXCEPT ![found[1]] = r.order]
                    /\ active_orders' =
                          IF r.raised = None /\ r.order.status \in Terminal
                          THEN DictRemove(active_orders, client_order_id)
                          ELSE active_orders
                    /\ call' = Call("update_order", Some(client_order_id),
                                    exchange_data, r.raised, TRUE, None)
           ELSE /\ call' = Call("update_order", Some(client_order_id),
                                exchange_data, None, FALSE, None)
                /\ UNCHANGED <<orders, active_orders>>
    /\ UNCHANGED <<snapshot, held, arg, result>>

cancel_order(client_order_id) ==
    /\ steps < MaxSteps
    /\ steps' = steps + 1
    /\ LET found == lookup(client_order_id)
       IN  IF found # None
           THEN /\ orders' = [orders EXCEPT ![found[1]].status = "CANCELLED"]
                /\ active_orders' = DictRemove(active_orders, client_order_id)
                /\ call' = Call("cancel_order", Some(client_order_id), NoPayload,
                                None, TRUE, None)
           ELSE /\ call' = Call("cancel_order", Some(client_order_id), NoPayload,
                                None, FALSE, None)
                /\ UNCHANGED <<orders, active_orders>>
    /\ UNCHANGED <<snapshot, held, arg, result>>

\* The alias a careless get_active_orders would return: the registry itself.
get_active_orders_alias ==
    /\ steps < MaxSteps
    /\ steps' = steps + 1
    /\ held' = "active_orders"
    /\ call' = Call("get_active_orders", None, NoPayload, None, FALSE, None)
    /\ UNCHANGED <<orders, active_orders, snapshot, arg, result>>

\* self.active_orders.copy(): a new dict object with the same keys, mapped to
\* the same Order objects
get_active_orders ==
    /\ steps < MaxSteps
    /\ steps' = steps + 1
    /\ snapshot' = active_orders
    /\ held' = "snapshot"
    /\ call' = Call("get_active_orders", None, NoPayload, None, FALSE, None)
    /\ UNCHANGED <<orders, active_orders, arg, result>>

\* ---------------------------------- the caller of get_active_orders

\* the dict object the caller's reference names
HeldDict == IF held = "snapshot" THEN snapshot ELSE active_orders

\* a store into the dict object the caller's reference names
StoreHeld(d) ==
    IF held = "snapshot"
    THEN snapshot' = d /\ UNCHANGED active_orders
    ELSE active_orders' = d /\ UNCHANGED snapshot

\* del returned[key]
caller_del(key) ==
    /\ steps < MaxSteps
    /\ held # "none"
    /\ key \in DOMAIN HeldDict
    /\ steps' = steps + 1
    /\ StoreHeld(DictRemove(HeldDict, key))
    /\ call' = Call("caller_del", Some(key), NoPayload, None, TRUE, None)
    /\ UNCHANGED <<orders, held, arg, result>>

\* returned[key] = order
caller_put(key, ref) ==
    /\ steps < MaxSteps
    /\ held # "none"
    /\ steps' = steps + 1
    /\ StoreHeld(DictPut(HeldDict, key, ref))
    /\ call' = Call("caller_put", Some(key), NoPayload, None, TRUE, Some(ref))
    /\ UNCHANGED <<orders, held, arg, result>>

\* returned[key].status = status
caller_set_status(key, status) ==
    /\ steps < MaxSteps
    /\ held # "none"
    /\ key \in DOMAIN HeldDict
    /\ steps' = steps + 1
    /\ orders' = [orders EXCEPT ![HeldDict[key]].status = status]
    /\ call' = Call("caller_set_status", Some(key), NoPayload, None, TRUE,
                    Some(HeldDict[key]))
    /\ UNCHANGED <<active_orders, snapshot, held, arg, result>>

\* ------------------------------------------------------------ validation.py

\* characters of the texts handed to the validators
Chars == {"0", "1", ".", "-", "a"}

TextsOfLen(n) == [1..n -> Chars]

TextsUpTo(n) == UNION {TextsOfLen(k) : k \in 0..n}

\* Decimal comparison: both sides scaled to a common exponent
DecimalLess(x, y) == x.c * Pow10(y.e) < y.c * Pow10(x.e)

\* the exception classes an `except` clause naming a class of `classes` catches:
\* the class itself and its base classes
Bases(exc) ==
    CASE exc = "InvalidOperation" -> {"InvalidOperation", "DecimalException", "ArithmeticError", "Exception"}
      [] exc = "ValueError"       -> {"ValueError", "Exception"}
      [] exc = "TypeError"        -> {"TypeError", "Exception"}
      [] exc = "ValidationError"  -> {"ValidationError", "Exception"}

Caught(exc, classes) == Bases(exc) \cap classes # {}

\* try: Decimal(str(x)) / except (TypeError, ValueError): raise ValidationError
decimal_or_validation_error(text) ==
    LET r == DecimalFromStr(text)
    IN  IF r.raised # None /\ Caught(r.raised[1], {"TypeError", "ValueError"})
        THEN [raised |-> Some("ValidationError"), value |-> DecimalZero]
        ELSE r

\* the checks after the parse, shared in shape by validate_quantity and
\* validate_price: > 0, and the bounds when they are truthy
range_checked(v, min, max) ==
    IF ~DecimalLess(DecimalZero, v)
    THEN [raised |-> Some("ValidationError"), value |-> DecimalZero]
    ELSE IF TruthyDecimal(min) /\ DecimalLess(v, min[1])
    THEN [raised |-> Some("ValidationError"), value |-> DecimalZero]
    ELSE IF TruthyDecimal(max) /\ DecimalLess(max[1], v)
    THEN [raised |-> Some("ValidationError"), value |-> DecimalZero]
    ELSE [raised |-> None, value |-> v]

validate_quantity(quantity, min_quantity, max_quantity) ==
    LET r == decimal_or_validation_error(quantity)
    IN  IF r.raised # None THEN r
        ELSE range_checked(r.value, min_quantity, max_quantity)

validate_price(price, min_price, max_price) ==
    LET r == decimal_or_validation_error(price)
    IN  IF r.raised # None THEN r
        ELSE range_checked(r.value, min_price, max_price)

UpperAlnum ==
    DigitChars \cup {"A", "B", "C", "D", "E", "F", "G", "H", "I", "J", "K", "L", "M",
                     "N", "O", "P", "Q", "R", "S", "T", "U", "V", "W", "X", "Y", "Z"}

\* re.match(r'^[A-Z0-9]+-[A-Z0-9]+$', symbol)
symbol_matches(symbol) ==
    \E i \in 1..Len(symbol) :
        /\ symbol[i] = "-"
        /\ i > 1 /\ i < Len(symbol)
        /\ \A j \in 1..Len(symbol) : j # i => symbol[j] \in UpperAlnum

validate_symbol(symbol) ==
    IF symbol_matches(symbol)
    THEN [raised |-> None, value |-> symbol]
    ELSE [raised |-> Some("ValidationError"), value |-> symbol]

\* int(text): [sign] digits, anything else raises ValueError
IntFromStr(s) ==
    LET signed == Len(s) > 0 /\ s[1] \in {"-", "+"}
        body   == IF signed THEN Tail(s) ELSE s
    IN  IF Len(body) >= 1 /\ AllDigits(body)
        THEN [raised |-> None,
              value |-> IF signed /\ s[1] = "-" THEN 0 - DigitsToInt(body) ELSE DigitsToInt(body)]
        ELSE [raised |-> Some("ValueError"), value |-> 0]

DefaultMaxLeverage == 100

validate_leverage(leverage, max_leverage) ==
    LET r == IntFromStr(leverage)
    IN  IF r.raised # None /\ Caught(r.raised[1], {"TypeError", "ValueError"})
        THEN [raised |-> Some("ValidationError"), value |-> 0]
        ELSE IF r.value < 1 \/ r.value > max_leverage
        THEN [raised |-> Some("ValidationError"), value |-> 0]
        ELSE r

\* The raw parameter map is a record of Optional fields (None: key absent).
\* The checks run in source order, the first failure is the outcome.
validate_order_params(params) ==
    LET sym == validate_symbol(params.symbol[1])
        qty == validate_quantity(params.quantity[1], params.min_quantity, params.max_quantity)
        prc == validate_price(params.price[1], params.min_price, params.max_price)
        lev == validate_leverage(params.leverage[1], DefaultMaxLeverage)
        keys == {"symbol", "quantity", "side"}
                  \cup (IF params.price # None THEN {"price"} ELSE {})
                  \cup (IF params.leverage # None THEN {"leverage"} ELSE {})
                  \cup (IF params.client_order_id # None THEN {"client_order_id"} ELSE {})
        failed == [raised |-> Some("ValidationError"), value |-> EmptyDict]
    IN  IF params.symbol = None \/ params.quantity = None \/ params.side = None THEN failed
        ELSE IF sym.raised # None THEN [raised |-> sym.raised, value |-> EmptyDict]
        ELSE IF qty.raised # None THEN [raised |-> qty.raised, value |-> EmptyDict]
        ELSE IF params.side[1] \notin {"BUY", "SELL"} THEN failed
        ELSE IF params.price # None /\ prc.raised # None THEN [raised |-> prc.raised, value |-> EmptyDict]
        ELSE IF params.leverage # None /\ lev.raised # None THEN [raised |-> lev.raised, value |-> EmptyDict]
        ELSE [raised |-> None,
              value |-> [k \in keys |->
                  CASE k = "symbol"          -> sym.value
                    [] k = "quantity"        -> qty.value
                    [] k = "side"            -> params.side[1]
                    [] k = "price"           -> prc.value
                    [] k = "leverage"        -> lev.value
                    [] k = "client_order_id" -> params.client_order_id[1]]]

\* ------------------------------------------- calls of the pure functions

NoArg == [fn |-> "none"]

\* bounds a caller may pass
DecimalBounds == {None, Some(DecimalZero), Some([c |-> 1, e |-> 0])}

validate_quantity_call(quantity, min_quantity, max_quantity) ==
    /\ arg = NoArg
    /\ arg' = [fn |-> "validate_quantity", text |-> quantity, min |-> min_quantity, max |-> max_quantity]
    /\ result' = validate_quantity(quantity, min_quantity, max_quantity)
    /\ UNCHANGED <<orders, active_orders, snapshot, held, call, steps>>

validate_price_call(price, min_price, max_price) ==
    /\ arg = NoArg
    /\ arg' = [fn |-> "validate_price", text |-> price, min |-> min_price, max |-> max_price]
    /\ result' = validate_price(price, min_price, max_price)
    /\ UNCHANGED <<orders, active_orders, snapshot, held, call, steps>>

\* raw parameter maps
RawParams ==
    [symbol          : {None, Some(<<"B", "-", "U">>), Some(<<"b", "-", "u">>)},
     quantity        : {None} \cup {Some(t) : t \in TextsUpTo(ShortLen)},
     side            : {None, Some("BUY"), Some("HOLD")},
     price           : {None} \cup {Some(t) : t \in TextsUpTo(ShortLen)},
     leverage        : {None, Some(<<"5">>), Some(<<"0">>), Some(<<"a">>)},
     min_quantity    : {None},
     max_quantity    : {None},
     min_price       : {None},
     max_price       : {None},
     client_order_id : {None, Some("abc123")}]

validate_order_params_call(params) ==
    /\ arg = NoArg
    /\ arg' = [fn |-> "validate_order_params", params |-> params]
    /\ result' = validate_order_params(params)
    /\ UNCHANGED <<orders, active_orders, snapshot, held, call, steps>>

\* OrderParams handed to Order.to_dict
Prices == {None, Some(DecimalZero), Some([c |-> 49500, e |-> 0]), Some([c |-> 5, e |-> 1])}

SerializeParams ==
    {OrderParams("BTC-USDT", "BUY", t, [c |-> 15, e |-> 1], p, sp, tp, cid) :
        t \in OrderType, p \in Prices, sp \in Prices, tp \in Prices,
        cid \in {None, Some(""), Some("abc123")}}

to_dict_call(params) ==
    /\ arg = NoArg
    /\ arg' = [fn |-> "to_dict", params |-> params]
    /\ result' = to_dict(Order(params))
    /\ UNCHANGED <<orders, active_orders, snapshot, held, call, steps>>

\* ------------------------------------------------------------------- specs

Init ==
    /\ orders = <<>>
    /\ active_orders = EmptyDict
    /\ snapshot = EmptyDict
    /\ held = "none"
    /\ call = NoCall
    /\ steps = 0
    /\ arg = NoArg
    /\ result = NoArg

Next ==
    \/ \E cid \in ClientIds : create_order(TrackerParams(cid))
    \/ \E cid \in LookupIds, d \in StatusPayloads : update_order(cid, d)
    \/ \E cid \in LookupIds : cancel_order(cid)

Spec == Init /\ [][Next]_vars

\* one client order id, every payload shape
NextUpdate ==
    \/ create_order(TrackerParams(Some("a")))
    \/ \E d \in FieldPayloads : update_order("a", d)
    \/ cancel_order("a")

SpecUpdate == Init /\ [][NextUpdate]_vars

\* the tracker together with a caller that keeps and mutates what
\* get_active_orders returned
NextSnapshot ==
    \/ \E cid \in ClientIds : create_order(TrackerParams(cid))
    \/ \E cid \in LookupIds, d \in StatusPayloads : update_order(cid, d)
    \/ \E cid \in LookupIds : cancel_order(cid)
    \/ get_active_orders
    \/ \E k \in LookupIds : caller_del(k)
    \/ \E k \in LookupIds, ref \in 1..Len(orders) : caller_put(k, ref)
    \/ \E k \in LookupIds, st \in OrderStatus : caller_set_status(k, st)

SpecSnapshot == Init /\ [][NextSnapshot]_vars

NextValidate ==
    \/ \E q \in TextsUpTo(MaxLen), lo \in DecimalBounds, hi \in DecimalBounds :
          validate_quantity_call(q, lo, hi)
    \/ \E q \in TextsUpTo(MaxLen), lo \in DecimalBounds, hi \in DecimalBounds :
          validate_price_call(q, lo, hi)
    \/ \E params \in RawParams : validate_order_params_call(params)

SpecValidate == Init /\ [][NextValidate]_vars

NextSerialize == \E params \in SerializeParams : to_dict_call(params)

SpecSerialize == Init /\ [][NextSerialize]_vars

\* ------------------------------------------------------------------ claims

Active == {"PENDING", "OPEN"}

\* the Order object an update_order or cancel_order step found in the registry
Target == orders[active_orders[call'.cid[1]]]

TargetAfter == orders'[active_orders[call'.cid[1]]]

\* C1 (as claimed): every order held in the active registry has a non-terminal
\* status, PENDING or OPEN, after any sequence of create_order, update_order
\* and cancel_order calls.
C1_RegistryHoldsOnlyActive ==
    \A k \in DOMAIN active_orders : orders[active_orders[k]].status \in Active

Rank(st) == CASE st = "PENDING" -> 0 [] st = "OPEN" -> 1 [] OTHER -> 2

\* C2 (as claimed): each Order's status only moves forward along
\* PENDING -> OPEN -> terminal: it never moves back, and a terminal status
\* never changes again.
C2_StatusOnlyMovesForward ==
    [][\A i \in 1..Len(orders) :
          /\ Rank(orders'[i].status) >= Rank(orders[i].status)
          /\ orders[i].status \in Terminal => orders'[i].status = orders[i].status]_vars

\* C2 (amended): an Order's status changes only while the order is in the
\* registry; once it is out of the registry (pruned on a terminal status,
\* cancelled, or replaced under its key) its status never changes again.
C2_StatusFinalOnceUnregistered ==
    [][\A i \in 1..Len(orders) :
          i \notin Range(active_orders) => orders'[i].status = orders[i].status]_vars

\* C2 witness: update_order was just called with the id of an order that had
\* been pruned with a terminal status.
C2_Witness ==
    /\ call.op = "update_order"
    /\ ~call.hit
    /\ \E i \in 1..Len(orders) :
          /\ orders[i].params.client_order_id = call.cid
          /\ orders[i].status \in Terminal
          /\ i \notin Range(active_orders)

\* C3: update_order and cancel_order with a client_order_id that is not in the
\* registry raise nothing and change neither the registry nor any field of
\* any Order object, whatever the payload.
C3_UnknownIdIsNoOp ==
    [][(/\ call'.op \in {"update_order", "cancel_order"}
        /\ steps' = steps + 1
        /\ call'.cid[1] \notin DOMAIN active_orders)
       => (/\ call'.raised = None
           /\ orders' = orders
           /\ active_orders' = active_orders)]_vars

\* C3 witness: update_order with an unrecognised status was just called for
\* an id whose order had been filled and pruned.
C3_Witness ==
    /\ call.op = "update_order"
    /\ call.data.status = Some("BOGUS")
    /\ ~call.hit
    /\ call.raised = None
    /\ \E i \in 1..Len(orders) :
          /\ orders[i].params.client_order_id = call.cid
          /\ orders[i].status = "FILLED"
          /\ i \notin Range(active_orders)

CallerOps == {"caller_del", "caller_put", "caller_set_status"}

\* C4 (as claimed): no mutation the caller performs on the result of
\* get_active_orders, on its keys or on an Order obtained from it, changes
\* the registry or the fields of a registered order.
C4_SnapshotIsolatesEverything ==
    [][call'.op \in CallerOps /\ steps' = steps + 1
       => /\ active_orders' = active_orders
          /\ \A k \in DOMAIN active_orders :
                orders'[active_orders'[k]] = orders[active_orders[k]]]_vars

\* C4 (amended): adding or removing keys of the result of get_active_orders
\* changes neither the registry nor any Order; the Order objects are shared,
\* so a store into an Order obtained from the result changes that Order, also
\* as get_order returns it, and nothing else.
C4_SnapshotIsolatesKeys ==
    [][/\ (call'.op \in {"caller_del", "caller_put"} /\ steps' = steps + 1)
          => (active_orders' = active_orders /\ orders' = orders)
       /\ (call'.op = "caller_set_status" /\ steps' = steps + 1)
          => (/\ active_orders' = active_orders
              /\ \A i \in 1..Len(orders) : i # call'.ret[1] => orders'[i] = orders[i])]_vars

\* C4 witness: the caller deleted from the returned dict a key that is still
\* registered.
C4_Witness ==
    /\ call.op = "caller_del"
    /\ held = "snapshot"
    /\ call.cid[1] \in DOMAIN active_orders
    /\ call.cid[1] \notin DOMAIN snapshot

\* what every create_order step does, whichever ids count as set
CreateOrderStep(registers) ==
    LET n   == Len(orders) + 1
        cid == call'.cid
    IN  /\ Len(orders') = n
        /\ call'.ret = Some(n)
        /\ call'.raised = None
        /\ orders'[n] = Order(orders'[n].params)
        /\ orders'[n].status = "PENDING"
        /\ orders'[n].params.client_order_id = cid
        /\ \A i \in 1..Len(orders) : orders'[i] = orders[i]
        /\ IF registers
           THEN /\ DOMAIN active_orders' = DOMAIN active_orders \cup {cid[1]}
                /\ active_orders'[cid[1]] = n
                /\ \A k \in DOMAIN active_orders \ {cid[1]} :
                      active_orders'[k] = active_orders[k]
           ELSE active_orders' = active_orders

\* C5 (as claimed): create_order returns a new PENDING Order; when
\* client_order_id is set the key maps to the new order afterwards and all
\* other keys are unchanged, when it is not set the registry is unchanged.
C5_CreateRegistersWhenSet ==
    [][call'.op = "create_order" /\ steps' = steps + 1
       => CreateOrderStep(call'.cid # None)]_vars

\* C5 (amended): as claimed, with "set" read as "set to a non-empty string":
\* an empty client_order_id is not registered.
C5_CreateRegistersWhenNonEmpty ==
    [][call'.op = "create_order" /\ steps' = steps + 1
       => CreateOrderStep(call'.cid # None /\ call'.cid[1] # "")]_vars

\* C5 witness: create_order just replaced the entry of a key while another
\* key was registered.
C5_Witness ==
    /\ call.op = "create_order"
    /\ call.cid = Some("a")
    /\ "b" \in DOMAIN active_orders
    /\ active_orders["a"] = Len(orders)
    /\ \E i \in 1..(Len(orders) - 1) : orders[i].params.client_order_id = Some("a")

Unparseable(text) == DecimalFromStr(text).raised # None

UnparseableField(v) == v # None /\ Unparseable(v[1])

\* C7 (as claimed): for an input that cannot be parsed as a decimal,
\* validate_quantity and validate_price raise ValidationError and nothing
\* else, and so does validate_order_params for such a quantity or price.
C7_UnparseableRaisesValidationError ==
    /\ (arg.fn \in {"validate_quantity", "validate_price"} /\ Unparseable(arg.text))
       => result.raised = Some("ValidationError")
    /\ (/\ arg.fn = "validate_order_params"
        /\ UnparseableField(arg.params.quantity) \/ UnparseableField(arg.params.price))
       => result.raised = Some("ValidationError")

\* the price-like field the order type of `p` requires (None for MARKET)
C8_Required(p) ==
    CASE p.order_type = "LIMIT"       -> <<"price", p.price>>
      [] p.order_type = "STOP_LOSS"   -> <<"stopPrice", p.stop_price>>
      [] p.order_type = "TAKE_PROFIT" -> <<"takeProfitPrice", p.take_profit_price>>
      [] OTHER                        -> <<"", None>>

C8_Body(priceSet, idSet) ==
    LET p == arg.params
        r == C8_Required(p)
    IN  /\ result.raised = Some("ValueError") <=> (p.order_type # "MARKET" /\ ~priceSet)
        /\ result.raised \in {None, Some("ValueError")}
        /\ result.raised = None
           => DOMAIN result.body =
                 BaseKeys \cup (IF idSet THEN {"clientOrderId"} ELSE {})
                          \cup (IF p.order_type # "MARKET" THEN {r[1]} ELSE {})

\* C8 (as claimed): to_dict fails exactly when the price-like field its order
\* type requires is not set; otherwise the result has the seven base keys,
\* clientOrderId iff client_order_id is set, and exactly the conditional key
\* of its order type (none for MARKET).
C8_FailsIffRequiredFieldUnset ==
    arg.fn = "to_dict"
    => C8_Body(C8_Required(arg.params)[2] # None, arg.params.client_order_id # None)

\* C8 (amended): as claimed, with "set" read as the code tests it: a required
\* price of zero counts as not set and fails, and an empty client_order_id
\* counts as not set and adds no clientOrderId key.
C8_FailsIffRequiredFieldFalsy ==
    arg.fn = "to_dict"
    => C8_Body(LET v == C8_Required(arg.params)[2] IN v # None /\ v[1].c # 0,
               LET id == arg.params.client_order_id IN id # None /\ id[1] # "")

\* C8 witness: a STOP_LOSS order with its stop price and, incidentally, a
\* limit price and a take-profit price set was serialised.
C8_Witness ==
    /\ arg.fn = "to_dict"
    /\ arg.params.order_type = "STOP_LOSS"
    /\ TruthyDecimal(arg.params.stop_price)
    /\ TruthyDecimal(arg.params.price)
    /\ TruthyDecimal(arg.params.take_profit_price)
    /\ arg.params.client_order_id = Some("abc123")
    /\ result.raised = None
    /\ result.body["stopPrice"] = <<"0", ".", "5">>

\* C9: for a registered order and a payload whose status is OPEN or PENDING,
\* update_order applied a second time in a row with that payload leaves the
\* order registered and the registry and every Order as the first
\* application left them.
C9_UpdateIdempotentWhileActive ==
    [][(/\ call'.op = "update_order" /\ steps' = steps + 1
        /\ call'.repeat
        /\ call.hit
        /\ call'.data.status \in {Some("OPEN"), Some("PENDING")})
       => (/\ call'.hit
           /\ call'.cid[1] \in DOMAIN active_orders'
           /\ active_orders' = active_orders
           /\ orders' = orders
           /\ call'.raised = call.raised)]_vars

\* C9 witness: an update with status OPEN and a fill quantity was just
\* applied for the second time in a row to a registered order.
C9_Witness ==
    /\ call.op = "update_order" /\ call.repeat /\ call.hit
    /\ call.raised = None
    /\ call.data.status = Some("OPEN")
    /\ call.data.fillQuantity = Some(<<"2">>)
    /\ call.cid[1] \in DOMAIN active_orders
    /\ orders[active_orders[call.cid[1]]].filled_quantity.c = 2

UnknownStatus(d) == d.status # None /\ d.status[1] \notin OrderStatus

\* C10 (as claimed): when update_order on a registered order fails because
\* the payload's status is not a known OrderStatus value, the order stays
\* registered and every field of it keeps its value.
C10_FailedUpdateChangesNothing ==
    [][(/\ call'.op = "update_order" /\ steps' = steps + 1
        /\ call'.hit
        /\ UnknownStatus(call'.data))
       => (/\ call'.raised # None
           /\ active_orders' = active_orders
           /\ orders' = orders)]_vars

\* C10 (amended): such a failed update leaves the order registered and keeps
\* status, filled_quantity, average_fill_price, last_update_timestamp and
\* error_message; exchange_order_id has already been replaced by the
\* payload's orderId (null when the key is absent).
C10_FailedUpdateChangesOnlyExchangeId ==
    [][(/\ call'.op = "update_order" /\ steps' = steps + 1
        /\ call'.hit
        /\ UnknownStatus(call'.data))
       => (/\ call'.raised = Some("ValueError")
           /\ active_orders' = active_orders
           /\ orders' = [orders EXCEPT ![active_orders[call'.cid[1]]].exchange_order_id =
                                          call'.data.orderId])]_vars

\* C10 witness: an update with an unknown status, an orderId and a fill
\* quantity just failed on an open, partly filled order.
C10_Witness ==
    /\ call.op = "update_order" /\ call.hit
    /\ call.raised = Some("ValueError")
    /\ UnknownStatus(call.data)
    /\ call.data.orderId = Some("x1")
    /\ call.data.fillQuantity = None
    /\ call.data.timestamp = Some(7)
    /\ "a" \in DOMAIN active_orders
    /\ orders[active_orders["a"]].status = "OPEN"
    /\ orders[active_orders["a"]].filled_quantity.c = 2
    /\ orders[active_orders["a"]].last_update_timestamp = None

====
